---- MODULE Spec2Model ----
(***************************************************************************)
(* Model of app.py: the Streamlit application that turns an Excel workbook *)
(* into a Markdown document plus a unified table (excel_to_markdown),      *)
(* sends it to the Gemini endpoint (call_gemini_api), and extracts the     *)
(* result part of the reply (extract_result_only).                         *)
(*                                                                         *)
(* Text is a sequence of tokens.  A token is one character class that the  *)
(* code distinguishes (space, newline, '#', the full-width period, an      *)
(* ordinary character) or one whole literal phrase of the code (a result   *)
(* keyword, a fragment of a failure message).  The string operations are   *)
(* written for arbitrary token sequences.                                  *)
(***************************************************************************)
EXTENDS Naturals, Sequences, FiniteSets, TLC

VARIABLES
    \* extract_result_only, executed statement by statement
    text,           \* the argument gemini_response
    lines,          \* gemini_response.split('\n')
    idx,            \* position of the for loop in lines (1-based)
    capturing,      \* the local flag
    result_lines,   \* the local list
    tier,           \* which tier produced result_lines (0: none yet)
    pc,             \* "idle" | "loop" | "tier2" | "tier3" | "return" | "done"
    ret,            \* the returned string
    \* excel_to_markdown, as one call
    workbook,       \* the uploaded file handed to the call
    outcome,        \* <<>> before the call returns, then the returned triple
    \* main, one script run per step
    session,        \* st.session_state
    uploaded_file,  \* the uploader's file in the latest run (None or a workbook)
    last_upload,    \* the file of the latest run that had one
    converted,      \* what excel_to_markdown returned in the latest run
    api,            \* the endpoint's response in the latest run ("nocall" if none)
    shown           \* the message of the latest run's analysis column

extractVars == <<text, lines, idx, capturing, result_lines, tier, pc, ret>>
combineVars == <<workbook, outcome>>
appVars == <<session, uploaded_file, last_upload, converted, api, shown>>
vars == <<extractVars, combineVars, appVars>>

----------------------------------------------------------------------------
(* Bounds                                                                  *)
MaxLen == 5         \* longest reply text, in tokens, given to extract_result_only
MaxSheets == 3      \* most sheets of a workbook given to excel_to_markdown
MaxRows == 2        \* most rows of a sheet given to excel_to_markdown
AppMaxRows == 1     \* most rows of a sheet uploaded to main

----------------------------------------------------------------------------
(* Tokens                                                                  *)
SP == " "
NL == "\n"
HASH == "#"
KUTEN == "kuten"            \* the full-width period
ERR == "era-"               \* the phrase of line 236 (katakana "era-")

\* a strip that also removes the full-width period
WhitespaceAndKuten == {SP, NL, KUTEN}

\* str.strip() without argument removes whitespace, newlines included.
Whitespace == {SP, NL}

\* Two of the ten phrases of result_keywords, in list order.
result_keywords == << <<"Result:">>, <<"Answer:">> >>

----------------------------------------------------------------------------
(* Python's string operations on token sequences                           *)

\* sub in s
Contains(s, sub) ==
    \E p \in 1..(Len(s) + 1) :
        /\ p + Len(sub) - 1 <= Len(s)
        /\ SubSeq(s, p, p + Len(sub) - 1) = sub

\* s.find(sub) + 1: the position of the first occurrence, 0 when absent
Find(s, sub) ==
    IF Contains(s, sub)
    THEN CHOOSE p \in 1..(Len(s) + 1) :
            /\ p + Len(sub) - 1 <= Len(s)
            /\ SubSeq(s, p, p + Len(sub) - 1) = sub
            /\ \A q \in 1..(p - 1) : SubSeq(s, q, q + Len(sub) - 1) # sub
    ELSE 0

\* s.split(sep): left to right, non-overlapping, empty pieces kept
RECURSIVE Split(_, _)
Split(s, sep) ==
    LET p == Find(s, sep) IN
    IF p = 0 THEN <<s>>
    ELSE <<SubSeq(s, 1, p - 1)>> \o Split(SubSeq(s, p + Len(sep), Len(s)), sep)

\* s.split(sep, 1)
SplitOnce(s, sep) ==
    LET p == Find(s, sep) IN
    IF p = 0 THEN <<s>>
    ELSE <<SubSeq(s, 1, p - 1), SubSeq(s, p + Len(sep), Len(s))>>

RECURSIVE LStrip(_)
LStrip(s) == IF s # <<>> /\ Head(s) \in Whitespace THEN LStrip(Tail(s)) ELSE s

RECURSIVE RStrip(_)
RStrip(s) ==
    IF s # <<>> /\ s[Len(s)] \in Whitespace
    THEN RStrip(SubSeq(s, 1, Len(s) - 1))
    ELSE s

\* s.strip()
Strip(s) == RStrip(LStrip(s))

\* s.startswith(prefix)
StartsWith(s, prefix) ==
    Len(prefix) <= Len(s) /\ SubSeq(s, 1, Len(prefix)) = prefix

\* sep.join(parts)
RECURSIVE Join(_, _)
Join(parts, sep) ==
    IF parts = <<>> THEN <<>>
    ELSE IF Len(parts) = 1 THEN parts[1]
    ELSE parts[1] \o sep \o Join(Tail(parts), sep)

----------------------------------------------------------------------------
(* extract_result_only                                                     *)

\* any(keyword in line_stripped for keyword in result_keywords)
HasKeyword(line_stripped) ==
    \E k \in 1..Len(result_keywords) : Contains(line_stripped, result_keywords[k])

\* the keyword at which the inner for loop breaks: the first of the list
\* that occurs in the line
FirstKeyword(line_stripped) ==
    result_keywords[CHOOSE k \in 1..Len(result_keywords) :
        /\ Contains(line_stripped, result_keywords[k])
        /\ \A j \in 1..(k - 1) : ~Contains(line_stripped, result_keywords[j])]

\* LoopBody with the keyword line's remainder appended even when it is empty
\* (the test "and after_keyword[1].strip()" of line 123 dropped)
LoopBodyKeepsEmpty(st, line) ==
    LET line_stripped == Strip(line) IN
    IF HasKeyword(line_stripped)
    THEN LET after_keyword == SplitOnce(line_stripped, FirstKeyword(line_stripped)) IN
         [capturing    |-> TRUE,
          result_lines |->
              IF Len(after_keyword) > 1
              THEN Append(st.result_lines, Strip(after_keyword[2]))
              ELSE st.result_lines,
          stopped      |-> FALSE]
    ELSE IF st.capturing
         THEN IF line_stripped = <<>> \/ StartsWith(line_stripped, <<HASH>>)
              THEN [st EXCEPT !.stopped = TRUE]
              ELSE [st EXCEPT !.result_lines = Append(@, line_stripped)]
         ELSE st

\* LoopBody with the heading test of line 130 dropped: only a blank line breaks
LoopBodyNoHeadingStop(st, line) ==
    LET line_stripped == Strip(line) IN
    IF HasKeyword(line_stripped)
    THEN LET after_keyword == SplitOnce(line_stripped, FirstKeyword(line_stripped)) IN
         [capturing    |-> TRUE,
          result_lines |->
              IF Len(after_keyword) > 1 /\ Strip(after_keyword[2]) # <<>>
              THEN Append(st.result_lines, Strip(after_keyword[2]))
              ELSE st.result_lines,
          stopped      |-> FALSE]
    ELSE IF st.capturing
         THEN IF line_stripped = <<>>
              THEN [st EXCEPT !.stopped = TRUE]
              ELSE [st EXCEPT !.result_lines = Append(@, line_stripped)]
         ELSE st

\* LoopBody appending line instead of line_stripped at line 132
LoopBodyVerbatim(st, line) ==
    LET line_stripped == Strip(line) IN
    IF HasKeyword(line_stripped)
    THEN LET after_keyword == SplitOnce(line_stripped, FirstKeyword(line_stripped)) IN
         [capturing    |-> TRUE,
          result_lines |->
              IF Len(after_keyword) > 1 /\ Strip(after_keyword[2]) # <<>>
              THEN Append(st.result_lines, Strip(after_keyword[2]))
              ELSE st.result_lines,
          stopped      |-> FALSE]
    ELSE IF st.capturing
         THEN IF line_stripped = <<>> \/ StartsWith(line_stripped, <<HASH>>)
              THEN [st EXCEPT !.stopped = TRUE]
              ELSE [st EXCEPT !.result_lines = Append(@, line)]
         ELSE st

\* One iteration of the for loop over lines.  st holds the locals
\* capturing and result_lines; stopped is set when the iteration breaks.
LoopBody(st, line) ==
    LET line_stripped == Strip(line) IN
    IF HasKeyword(line_stripped)
    THEN LET after_keyword == SplitOnce(line_stripped, FirstKeyword(line_stripped)) IN
         [capturing    |-> TRUE,
          result_lines |->
              IF Len(after_keyword) > 1 /\ Strip(after_keyword[2]) # <<>>
              THEN Append(st.result_lines, Strip(after_keyword[2]))
              ELSE st.result_lines,
          stopped      |-> FALSE]
    ELSE IF st.capturing
         THEN IF line_stripped = <<>> \/ StartsWith(line_stripped, <<HASH>>)
              THEN [st EXCEPT !.stopped = TRUE]
              ELSE [st EXCEPT !.result_lines = Append(@, line_stripped)]
         ELSE st

\* the whole for loop, from line i on
RECURSIVE Scan(_, _, _)
Scan(st, ls, i) ==
    IF i > Len(ls) \/ st.stopped THEN st
    ELSE Scan(LoopBody(st, ls[i]), ls, i + 1)

\* [p.strip() for p in gemini_response.split('\n\n') if p.strip()]
RECURSIVE StripNonEmpty(_)
StripNonEmpty(ps) ==
    IF ps = <<>> THEN <<>>
    ELSE (IF Strip(Head(ps)) # <<>> THEN <<Strip(Head(ps))>> ELSE <<>>)
         \o StripNonEmpty(Tail(ps))

Paragraphs(gemini_response) == StripNonEmpty(Split(gemini_response, <<NL, NL>>))

\* lines 135-138
Tier2(gemini_response, rl) ==
    IF rl = <<>>
    THEN LET paragraphs == Paragraphs(gemini_response) IN
         IF paragraphs # <<>> THEN <<paragraphs[Len(paragraphs)]>> ELSE rl
    ELSE rl

\* lines 141-143
Tier3(gemini_response, rl) ==
    IF rl = <<>>
    THEN LET sentences == Split(gemini_response, <<KUTEN>>) IN
         <<IF Len(sentences) > 1
           THEN sentences[Len(sentences) - 1] \o <<KUTEN>>
           ELSE gemini_response>>
    ELSE rl

\* the function as a whole
extract_result_only(gemini_response) ==
    LET st == Scan([capturing |-> FALSE, result_lines |-> <<>>, stopped |-> FALSE],
                   Split(gemini_response, <<NL>>), 1)
    IN Join(Tier3(gemini_response, Tier2(gemini_response, st.result_lines)), <<NL>>)

----------------------------------------------------------------------------
(* excel_to_markdown                                                       *)
(*                                                                         *)
(* An optional value (None, or a key missing from the session state) is    *)
(* <<>>; a value v that is present is <<v>>.  A sheet is its name, its     *)
(* number of data rows and whether it already has a column named CustProg; *)
(* data row j of a sheet is the record [cell |-> j].  The Markdown         *)
(* document is the sequence of the blocks appended to markdown_content.    *)

\* what the except branch returns (line 89): None, None, None
Failure == [markdown_content |-> <<>>, combined_df |-> <<>>, sheet_names |-> <<>>]

\* excel_file.sheet_names (line 43)
SheetNames(uploaded) == [n \in 1..Len(uploaded.sheets) |-> uploaded.sheets[n].name]

\* pd.read_excel(uploaded_file, sheet_name=sheet_name) (line 50)
read_excel(sheet) == [j \in 1..sheet.nrows |-> [cell |-> j]]

\* df.insert(0, 'CustProg', sheet_name) on a copy (lines 57-58)
InsertCustProg(df, sheet_name) ==
    [j \in 1..Len(df) |-> [CustProg |-> sheet_name, cell |-> df[j].cell]]

Block(kind, label, n, rows) == [kind |-> kind, label |-> label, n |-> n, rows |-> rows]

\* lines 64-72
SheetSection(sheet_name, df, df_with_custprog) ==
    << Block("heading", sheet_name, 0, <<>>),
       Block("rows", "", Len(df), <<>>) >>
    \o (IF df_with_custprog # <<>>
        THEN <<Block("table", "", 0, df_with_custprog)>> ELSE <<>>)
    \o << Block("rule", "", 0, <<>>) >>

\* lines 79-83
UnifiedSection(combined_df, sheet_names) ==
    << Block("heading", "unified", 0, <<>>),
       Block("total", "", Len(combined_df), <<>>),
       Block("sheets", "", Len(sheet_names), <<>>),
       Block("table", "", 0, combined_df) >>

\* pd.concat with the frames taken in reverse
RECURSIVE ConcatReversed(_)
ConcatReversed(frames) ==
    IF frames = <<>> THEN <<>> ELSE ConcatReversed(Tail(frames)) \o Head(frames)

\* pd.concat(combined_data, ignore_index=True) (line 76)
RECURSIVE Concat(_)
Concat(frames) ==
    IF frames = <<>> THEN <<>> ELSE Head(frames) \o Concat(Tail(frames))

\* the for loop of lines 49-72 from sheet n on; acc holds markdown_content,
\* combined_data and whether an exception was raised
RECURSIVE SheetLoop(_, _, _)
SheetLoop(uploaded, n, acc) ==
    IF n > Len(uploaded.sheets) \/ acc.raised THEN acc
    ELSE LET sheet == uploaded.sheets[n]
             df == read_excel(sheet)
         IN IF df = <<>>
            THEN SheetLoop(uploaded, n + 1, acc)                 \* continue
            ELSE IF sheet.custprog
            THEN [acc EXCEPT !.raised = TRUE]                    \* insert: ValueError
            ELSE LET df_with_custprog == InsertCustProg(df, sheet.name) IN
                 SheetLoop(uploaded, n + 1,
                    [raised |-> FALSE,
                     markdown_content |->
                        acc.markdown_content
                        \o SheetSection(sheet.name, df, df_with_custprog),
                     combined_data |-> Append(acc.combined_data, df_with_custprog)])

\* excel_to_markdown with combined_df bound to an empty frame before line 75
ExcelToMarkdownEmptyOk(uploaded) ==
    IF ~uploaded.readable THEN Failure
    ELSE LET sheet_names == SheetNames(uploaded)
             acc == SheetLoop(uploaded, 1,
                      [raised |-> FALSE, markdown_content |-> <<>>, combined_data |-> <<>>])
         IN IF acc.raised THEN Failure
            ELSE LET combined_df == Concat(acc.combined_data) IN
                 [markdown_content |->
                     <<acc.markdown_content
                       \o (IF acc.combined_data # <<>>
                           THEN UnifiedSection(combined_df, sheet_names) ELSE <<>>)>>,
                  combined_df |-> <<combined_df>>,
                  sheet_names |-> <<sheet_names>>]

\* lines 38-89.  Every exception ends in the except branch: the reader's
\* (line 42), insert's, and the UnboundLocalError of line 85 when no sheet
\* was retained and combined_df was never assigned.
excel_to_markdown(uploaded) ==
    IF ~uploaded.readable THEN Failure
    ELSE LET sheet_names == SheetNames(uploaded)
             acc == SheetLoop(uploaded, 1,
                      [raised |-> FALSE, markdown_content |-> <<>>, combined_data |-> <<>>])
         IN IF acc.raised THEN Failure
            ELSE IF acc.combined_data # <<>>
            THEN LET combined_df == Concat(acc.combined_data) IN
                 [markdown_content |->
                     <<acc.markdown_content \o UnifiedSection(combined_df, sheet_names)>>,
                  combined_df |-> <<combined_df>>,
                  sheet_names |-> <<sheet_names>>]
            ELSE Failure

\* if markdown_content: (line 190)
Truthy(markdown_content) == markdown_content # <<>> /\ markdown_content[1] # <<>>

----------------------------------------------------------------------------
(* Workbooks                                                               *)

SheetLabels == {"A", "B", "C", "D"}

\* sheet names are distinct within a workbook
Injective(f) == \A a, b \in DOMAIN f : a # b => f[a] # f[b]

NameLists(labels, most) ==
    {f \in UNION {[1..n -> labels] : n \in 0..most} : Injective(f)}

\* the readable workbook with the given sheet names, row counts and columns
Workbook(names, r, c) ==
    [readable |-> TRUE,
     sheets |-> [n \in 1..Len(names) |->
                    [name |-> names[n], nrows |-> r[n], custprog |-> c[n]]]]

\* a file the reader rejects (pd.ExcelFile raises)
Unreadable == [readable |-> FALSE, sheets |-> <<>>]

----------------------------------------------------------------------------
(* call_gemini_api                                                         *)

\* What requests.post does: "exception" (it raises, or the 200 body cannot
\* be read), or a response with a status code and, for 200, the texts of
\* the candidates.
NoCall == [kind |-> "nocall", status_code |-> 0, candidates |-> <<>>]

Replies == { <<>>, <<"x">>, <<"x", NL, "Result:", "x">>, <<ERR, "x">> }

Responses ==
    { [kind |-> "exception", status_code |-> 0, candidates |-> <<>>],
      [kind |-> "status", status_code |-> 500, candidates |-> <<>>],
      [kind |-> "status", status_code |-> 200, candidates |-> <<>>] }
    \cup { [kind |-> "status", status_code |-> 200, candidates |-> <<t>>] : t \in Replies }

\* lines 25-36: the string returned
call_gemini_api(response) ==
    IF response.kind = "exception"
    THEN <<ERR, "occurred:", SP, "x">>                        \* line 36
    ELSE IF response.status_code = 200
         THEN IF Len(response.candidates) > 0
              THEN response.candidates[1]                     \* line 30
              ELSE <<"reply-not-parsed", KUTEN>>              \* line 32
         ELSE <<"API", ERR, ":", SP, "status", SP, "-", SP, "x">>  \* line 34

----------------------------------------------------------------------------
(* main: one run of the script per step                                    *)

AppLabels == {"A", "B"}

AppWorkbooks ==
    {Unreadable}
    \cup UNION {{Workbook(names, r, [n \in 1..Len(names) |-> FALSE]) :
                    r \in [1..Len(names) -> 0..AppMaxRows]} :
                names \in NameLists(AppLabels, Cardinality(AppLabels))}

NoSession ==
    [markdown_content |-> <<>>, combined_df |-> <<>>, sheet_names |-> <<>>,
     last_result |-> <<>>, full_response |-> <<>>]

IdleCombine == workbook = <<>> /\ outcome = <<>>

IdleApp ==
    /\ session = NoSession /\ uploaded_file = <<>> /\ last_upload = <<>>
    /\ converted = <<>> /\ api = NoCall /\ shown = "none"

\* lines 183-206: the session state after the upload column
AfterUpload(sess, file) ==
    IF file # <<>>
    THEN LET r == excel_to_markdown(file[1]) IN
         IF Truthy(r.markdown_content)
         THEN [sess EXCEPT !.markdown_content = r.markdown_content,
                           !.combined_df = r.combined_df,
                           !.sheet_names = r.sheet_names]
         ELSE sess
    ELSE sess

\* what the upload column leaves in the variables
UploadColumn(file) ==
    /\ uploaded_file' = file
    /\ last_upload' = IF file # <<>> THEN file ELSE last_upload
    /\ converted' = IF file # <<>> THEN <<excel_to_markdown(file[1])>> ELSE <<>>

\* a run in which the analysis button is not pressed (lines 208-258 show the
\* form or a warning)
Rerun(api_key, file) ==
    /\ UploadColumn(file)
    /\ session' = AfterUpload(session, file)
    /\ api' = NoCall
    /\ shown' = IF api_key /\ session'.markdown_content # <<>> THEN "form"
                ELSE IF ~api_key THEN "warning: api key" ELSE "warning: upload"
    /\ UNCHANGED <<extractVars, combineVars>>

\* the previous run drew the analysis form with its button (line 211 held)
FormShown == shown \in {"form", "success", "error", "error: no instruction"}

\* a run in which the analysis button is pressed with the instruction left
\* empty (lines 219-220, 252-253).  The button can be pressed only when the
\* previous run drew it, and the uploader still holds the previous run's file.
AnalyseNoInstruction(file) ==
    /\ FormShown
    /\ file = uploaded_file
    /\ UploadColumn(file)
    /\ session' = AfterUpload(session, file)
    /\ session'.markdown_content # <<>>
    /\ api' = NoCall
    /\ shown' = "error: no instruction"
    /\ UNCHANGED <<extractVars, combineVars>>

\* a run in which the analysis button is pressed with an instruction
\* (lines 219-251)
Analyse(file, response) ==
    /\ FormShown
    /\ file = uploaded_file
    /\ UploadColumn(file)
    /\ LET sess == AfterUpload(session, file)
           gemini_response == call_gemini_api(response)
       IN /\ sess.markdown_content # <<>>
          /\ api' = response
          /\ IF gemini_response # <<>> /\ ~StartsWith(gemini_response, <<ERR>>)
             THEN /\ session' =
                       [sess EXCEPT
                           !.last_result = <<extract_result_only(gemini_response)>>,
                           !.full_response = <<gemini_response>>]
                  /\ shown' = "success"
             ELSE /\ session' = sess
                  /\ shown' = "error"
    /\ UNCHANGED <<extractVars, combineVars>>

----------------------------------------------------------------------------
(* extract_result_only, statement by statement                             *)

Tokens == {"x", SP, NL, HASH, KUTEN, "Result:", "Answer:"}

Texts == UNION {[1..n -> Tokens] : n \in 0..MaxLen}

IdleExtract ==
    /\ text = <<>> /\ lines = <<>> /\ idx = 0 /\ capturing = FALSE
    /\ result_lines = <<>> /\ tier = 0 /\ pc = "idle" /\ ret = <<>>

\* the call, up to the start of the for loop (lines 109-111)
ExtractInit ==
    /\ text \in Texts
    /\ lines = Split(text, <<NL>>)
    /\ idx = 1
    /\ capturing = FALSE
    /\ result_lines = <<>>
    /\ tier = 0
    /\ pc = "loop"
    /\ ret = <<>>
    /\ IdleCombine /\ IdleApp

\* one iteration of the for loop (lines 113-132); a break leaves idx at the
\* line that caused it
LoopIter ==
    /\ pc = "loop"
    /\ idx <= Len(lines)
    /\ LET st == LoopBody([capturing |-> capturing, result_lines |-> result_lines,
                           stopped |-> FALSE], lines[idx])
       IN /\ capturing' = st.capturing
          /\ result_lines' = st.result_lines
          /\ IF st.stopped
             THEN /\ pc' = "tier2"
                  /\ idx' = idx
                  /\ tier' = IF st.result_lines # <<>> THEN 1 ELSE 0
             ELSE /\ pc' = "loop"
                  /\ idx' = idx + 1
                  /\ tier' = tier
    /\ UNCHANGED <<text, lines, ret, combineVars, appVars>>

\* the for loop runs out of lines
LoopEnd ==
    /\ pc = "loop"
    /\ idx > Len(lines)
    /\ pc' = "tier2"
    /\ tier' = IF result_lines # <<>> THEN 1 ELSE 0
    /\ UNCHANGED <<text, lines, idx, capturing, result_lines, ret, combineVars, appVars>>

\* lines 135-138
LastParagraph ==
    /\ pc = "tier2"
    /\ result_lines' = Tier2(text, result_lines)
    /\ tier' = IF tier = 0 /\ result_lines' # <<>> THEN 2 ELSE tier
    /\ pc' = "tier3"
    /\ UNCHANGED <<text, lines, idx, capturing, ret, combineVars, appVars>>

\* lines 141-143
LastSentence ==
    /\ pc = "tier3"
    /\ result_lines' = Tier3(text, result_lines)
    /\ tier' = IF tier = 0 THEN 3 ELSE tier
    /\ pc' = "return"
    /\ UNCHANGED <<text, lines, idx, capturing, ret, combineVars, appVars>>

\* line 145
Return ==
    /\ pc = "return"
    /\ ret' = Join(result_lines, <<NL>>)
    /\ pc' = "done"
    /\ UNCHANGED <<text, lines, idx, capturing, result_lines, tier, combineVars, appVars>>

ExtractNext == LoopIter \/ LoopEnd \/ LastParagraph \/ LastSentence \/ Return

SpecExtract == ExtractInit /\ [][ExtractNext]_vars

----------------------------------------------------------------------------
(* Specifications                                                          *)

\* excel_to_markdown applied to one workbook
CombineInit ==
    /\ \/ workbook = <<Unreadable>>
       \/ \E names \in NameLists(SheetLabels, MaxSheets) :
            \E r \in [1..Len(names) -> 0..MaxRows], c \in [1..Len(names) -> BOOLEAN] :
                workbook = <<Workbook(names, r, c)>>
    /\ outcome = <<>>
    /\ IdleExtract /\ IdleApp

Convert ==
    /\ workbook # <<>>
    /\ outcome = <<>>
    /\ outcome' = <<excel_to_markdown(workbook[1])>>
    /\ UNCHANGED <<workbook, extractVars, appVars>>

SpecCombine == CombineInit /\ [][Convert]_vars

\* the application: a sequence of script runs
Init == IdleExtract /\ IdleCombine /\ IdleApp

Files == {<<>>} \cup {<<w>> : w \in AppWorkbooks}

Next ==
    \/ \E api_key \in BOOLEAN, file \in Files : Rerun(api_key, file)
    \/ \E file \in Files : AnalyseNoInstruction(file)
    \/ \E file \in Files, response \in Responses : Analyse(file, response)

Spec == Init /\ [][Next]_vars

----------------------------------------------------------------------------
(* Properties of extract_result_only                                       *)

\* the for loop is about to process a line while capturing
AtCapturedLine == pc = "loop" /\ idx <= Len(lines) /\ capturing

\* the line is blank or starts with '#', as line 130 tests it
StopLine(line) == Strip(line) = <<>> \/ StartsWith(Strip(line), <<HASH>>)

OnlyWhitespace(s) == \A n \in 1..Len(s) : s[n] \in {SP, NL}

\* C1 as stated: for every input, the empty string included, the function
\* returns a string of length greater than zero.
C1_NeverEmpty == pc = "done" => Len(ret) > 0

\* C1, amended: the function returns for every input (until it has returned,
\* the guard of one of its statements holds), and the returned string is
\* empty exactly when the input is the empty string.
C1_EmptyOnlyForEmptyInput ==
    /\ pc = "done" => (ret = <<>> <=> text = <<>>)
    /\ pc # "done" =>
          \/ pc = "loop" /\ idx <= Len(lines)
          \/ pc = "loop" /\ idx > Len(lines)
          \/ pc \in {"tier2", "tier3", "return"}

\* C1: a whitespace-and-newline input has been answered, by a non-empty string
C1_Witness ==
    /\ pc = "done" /\ Len(text) >= 2 /\ OnlyWhitespace(text)
    /\ NL \in {text[n] : n \in 1..Len(text)}
    /\ ret # <<>>

\* C6 as stated: while capturing, a line that is blank or starts with '#'
\* ends the loop and adds nothing, whether or not it contains a marker.
C6_StopsEvenWithMarker ==
    [][(AtCapturedLine /\ StopLine(lines[idx]))
        => (pc' = "tier2" /\ result_lines' = result_lines)]_vars

\* C6, amended: while capturing, a line without a marker that is blank or
\* starts with '#' ends the loop at that line and adds nothing, and the loop
\* is never resumed; a line that starts with '#' and contains a marker does
\* not end the loop.
C6_StopsUnlessMarker ==
    [][/\ (AtCapturedLine /\ StopLine(lines[idx]) /\ ~HasKeyword(Strip(lines[idx])))
            => (pc' = "tier2" /\ idx' = idx /\ result_lines' = result_lines)
       /\ (AtCapturedLine /\ StopLine(lines[idx]) /\ HasKeyword(Strip(lines[idx])))
            => (pc' = "loop" /\ idx' = idx + 1 /\ capturing')
       /\ (pc # "loop" => pc' # "loop")]_vars

\* C6: the loop broke at a '#' line with text captured and lines left over
C6_Witness ==
    /\ pc = "tier2" /\ capturing /\ result_lines # <<>>
    /\ idx < Len(lines)
    /\ StartsWith(Strip(lines[idx]), <<HASH>>)

\* C7 as stated: while capturing, every line before the stop condition is
\* appended verbatim, a line with a marker included.
C7_Verbatim ==
    [][(AtCapturedLine /\ ~StopLine(lines[idx]))
        => result_lines' = Append(result_lines, lines[idx])]_vars

\* C7, amended: while capturing, a line without a marker that is neither
\* blank nor a heading is appended with its leading and trailing whitespace
\* removed; a line with a marker contributes only the trimmed text after the
\* first occurrence of the first-listed marker it contains, and nothing when
\* that text is empty.
C7_TrimmedOrAfterMarker ==
    [][AtCapturedLine =>
        LET s == Strip(lines[idx]) IN
        IF \E k \in 1..Len(result_keywords) : Contains(s, result_keywords[k])
        THEN \E k \in 1..Len(result_keywords), p \in 1..Len(s) :
                LET kw == result_keywords[k]
                    rest == Strip(SubSeq(s, p + Len(kw), Len(s)))
                IN /\ SubSeq(s, p, p + Len(kw) - 1) = kw
                   /\ \A q \in 1..(p - 1) : SubSeq(s, q, q + Len(kw) - 1) # kw
                   /\ \A j \in 1..(k - 1) : ~Contains(s, result_keywords[j])
                   /\ result_lines' =
                        IF rest # <<>> THEN Append(result_lines, rest) ELSE result_lines
        ELSE IF StopLine(lines[idx])
             THEN result_lines' = result_lines
             ELSE result_lines' = Append(result_lines, s)]_vars

\* C7: a line padded with whitespace has just been captured, trimmed
C7_Witness ==
    /\ pc = "loop" /\ capturing /\ idx >= 3 /\ result_lines # <<>>
    /\ ~HasKeyword(lines[idx - 1])
    /\ lines[idx - 1] # Strip(lines[idx - 1])
    /\ result_lines[Len(result_lines)] = Strip(lines[idx - 1])

\* C10: Tier 3 produces the result only for an input made of whitespace
\* alone; such an input has no full-width period, so the result is the input
\* unchanged, and every input with a full-width period is answered by Tier 1
\* or Tier 2.
C10_Tier3OnlyWhitespace ==
    /\ tier = 3 => (OnlyWhitespace(text) /\ ~Contains(text, <<KUTEN>>))
    /\ (tier = 3 /\ pc = "done") => ret = text
    /\ (pc \in {"return", "done"} /\ Contains(text, <<KUTEN>>)) => tier \in {1, 2}

\* C10: Tier 3 has answered a whitespace input of several characters
C10_Witness == pc = "done" /\ tier = 3 /\ Len(text) >= 2

----------------------------------------------------------------------------
(* Properties of excel_to_markdown                                         *)

Returned == outcome # <<>>
Succeeded == Returned /\ outcome[1] # Failure
Sheets == workbook[1].sheets

\* the rows of the sheets before sheet n
RECURSIVE RowsBefore(_, _)
RowsBefore(sheets, n) ==
    IF n <= 1 THEN 0 ELSE RowsBefore(sheets, n - 1) + sheets[n - 1].nrows

\* the blocks of a document that are of one kind
BlocksOf(doc, kind) == {n \in 1..Len(doc) : doc[n].kind = kind}

C3_LabelsOfRetainedSheets ==
    Succeeded =>
        \E keep \in [1..Len(outcome[1].sheet_names[1]) -> 1..Len(Sheets)] :
            /\ \A a, b \in DOMAIN keep : a < b => keep[a] < keep[b]
            /\ {keep[a] : a \in DOMAIN keep} = {n \in 1..Len(Sheets) : Sheets[n].nrows > 0}
            /\ \A a \in DOMAIN keep : outcome[1].sheet_names[1][a] = Sheets[keep[a]].name

\* C5 as stated: the sheet count of the unified section equals the number
\* of per-sheet sections of the document.
C5_SheetCountIsSectionCount ==
    Succeeded =>
        LET doc == outcome[1].markdown_content[1] IN
        \A n \in BlocksOf(doc, "sheets") :
            doc[n].n = Cardinality(BlocksOf(doc, "rule"))

----------------------------------------------------------------------------
(* Properties of main                                                      *)

NoRows(w) == w.readable /\ \A n \in 1..Len(w.sheets) : w.sheets[n].nrows = 0

\* C4: a run whose file has no sheet, or only sheets without rows, gets the
\* failure triple from excel_to_markdown and leaves the three upload keys
\* of the session state as they were.
C4_EmptyInputFails ==
    [][(uploaded_file' # <<>> /\ NoRows(uploaded_file'[1]))
        => /\ converted' = <<Failure>>
           /\ session'.markdown_content = session.markdown_content
           /\ session'.combined_df = session.combined_df
           /\ session'.sheet_names = session.sheet_names]_vars

\* C4: a workbook of two empty sheets was uploaded to a fresh session, the
\* call failed and nothing is stored
C4_Witness ==
    /\ uploaded_file # <<>>
    /\ NoRows(uploaded_file[1]) /\ Len(uploaded_file[1].sheets) = 2
    /\ converted = <<Failure>>
    /\ session.markdown_content = <<>> /\ session.combined_df = <<>>
    /\ session.sheet_names = <<>>

\* C8 as stated: whatever the session state holds of the three upload keys
\* was derived from the most recent upload alone, also when that upload
\* failed or had no sheet with rows.
C8_SessionFromLatestUpload ==
    session.markdown_content # <<>> =>
        /\ last_upload # <<>>
        /\ LET r == excel_to_markdown(last_upload[1]) IN
           /\ session.markdown_content = r.markdown_content
           /\ session.combined_df = r.combined_df
           /\ session.sheet_names = r.sheet_names

FailedCall(response) ==
    \/ response.kind = "exception"
    \/ response.kind = "status" /\ response.status_code # 200
    \/ response.kind = "status" /\ response.status_code = 200
       /\ Len(response.candidates) = 0

\* C9 as stated: a run whose call to the endpoint failed reports an error
\* and leaves last_result and full_response unchanged, and last_result only
\* changes to the extraction of the reply text of a 200 response with a
\* candidate.
C9_FailureIsNeverAnAnswer ==
    [][/\ FailedCall(api')
          => /\ shown' = "error"
             /\ session'.last_result = session.last_result
             /\ session'.full_response = session.full_response
       /\ session'.last_result # session.last_result
          => /\ api'.kind = "status" /\ api'.status_code = 200
             /\ Len(api'.candidates) > 0
             /\ session'.last_result = <<extract_result_only(api'.candidates[1])>>]_vars

====
